---- MODULE Spec2Model ----
(***************************************************************************)
(* Model of strip.py: the pipeline that strips a Mach-O static archive by  *)
(* listing its symbols (nm), filtering them against --pattern, writing the *)
(* exported-symbols sidecar, unpacking (ar), prelinking (ld -r) and        *)
(* repacking (libtool -static).                                            *)
(*                                                                         *)
(* Text is a sequence of one-character strings.  A path is the sequence of *)
(* the dot-separated pieces of its file name: <<"lib","a">> is "lib.a".    *)
(***************************************************************************)
EXTENDS Integers, Sequences, FiniteSets, TLC

VARIABLES
    pc,               \* position in the script
    args,             \* parsed command line: source, dest, pattern, nm
    PATH,             \* the executables shutil.which can find
    files0,           \* the file system before the run (path -> kind)
    files,            \* the file system now (path -> kind)
    symtab,           \* the symbol table of the source archive, as nm sees it
    nm,               \* resolved symbol lister
    manifest,         \* manifest.stdout.splitlines()
    symbol_pattern,   \* compiled pattern, <<>> until compiled
    tmp,              \* the scratch directory: "none", "exists", "removed"
    idx,              \* next line of the filter loop
    symbols_to_keep,  \* the preserve-set
    towrite,          \* symbols the writer loop has still to emit
    module_text,      \* the text in the sidecar file
    invoked,          \* the external tools run so far, in order
    echoed,           \* what the script itself printed to sys.stderr
    steps,            \* the pipeline stages completed so far, in order
    error,            \* the exception that ended the run
    failed_at         \* the position at which it was raised

vars == <<pc, args, PATH, files0, files, symtab, nm, manifest, symbol_pattern,
          tmp, idx, symbols_to_keep, towrite, module_text, invoked, echoed,
          steps, error, failed_at>>

\* ------------------------------------------------------------------ bounds
MaxLines == 2

\* ------------------------------------------------------------------ inputs
Tools == {"nm", "ld", "ar", "libtool"}

\* Every tool on the search path, or exactly one of them missing.
Paths == {Tools} \cup {Tools \ {t} : t \in Tools}

NmOverrides == {"", "/opt/llvm/bin/nm"}

Lit(c) == [c |-> c, star |-> FALSE]
AnyStar == [c |-> ".", star |-> TRUE]

\* The regular expressions  _f   .*   f   b   _.*b
Patterns == { <<Lit("_"), Lit("f")>>,
              <<AnyStar>>,
              <<Lit("f")>>,
              <<Lit("b")>>,
              <<Lit("_"), AnyStar, Lit("b")>> }

\* --pattern is optional and has no default: <<>> is None, <<p>> is p.
PatternArgs == {<<>>} \cup {<<p>> : p \in Patterns}

Sources == { <<"lib", "a">>, <<"lib", "symbols">>, <<"lib">> }
Dests   == { <<"out", "a">>, <<"lib", "symbols">>, <<"lib", "a">> }

\* Symbol-table entries: member object and symbol name.  An entry without a
\* member object is what nm -A prints for a file that is not an archive.
Entries == { [obj |-> <<"o">>, sym |-> <<"_", "f">>],
             [obj |-> <<"p">>, sym |-> <<"_", "f">>],
             [obj |-> <<"o">>, sym |-> <<"_", "b">>],
             [obj |-> <<"p">>, sym |-> <<"f", "_">>],
             [obj |-> <<>>,    sym |-> <<"_", "f">>] }

RECURSIVE SeqsUpTo(_, _)
SeqsUpTo(S, n) ==
    IF n = 0 THEN {<<>>}
    ELSE LET shorter == SeqsUpTo(S, n - 1)
         IN  shorter \cup {Append(q, e) : q \in {r \in shorter : Len(r) = n - 1}, e \in S}

ToolStderr == <<"e", "r", "r">>

\* ------------------------------------------------------------ pure helpers

\* pathlib: PurePath.suffix -- the last dot of the name counts only when it is
\* neither the first nor the last character of the name.
HasSuffix(p) ==
    /\ Len(p) >= 2
    /\ p[Len(p)] # ""
    /\ ~(Len(p) = 2 /\ p[1] = "")

\* pathlib: PurePath.with_suffix('.symbols')
with_suffix(p) ==
    IF HasSuffix(p) THEN Append(SubSeq(p, 1, Len(p) - 1), "symbols")
    ELSE Append(p, "symbols")

AllPaths == Sources \cup Dests \cup {with_suffix(s) : s \in Sources}

\* nm -gjPUA: "archive[member]: symbol type"
FormatLine(e) ==
    IF e.obj = <<>>
    THEN <<"a", ":", " ">> \o e.sym \o <<" ", "T">>
    ELSE <<"a", "[">> \o e.obj \o <<"]", ":", " ">> \o e.sym \o <<" ", "T">>

\* str.split(' ')
RECURSIVE SplitOn(_, _)
SplitOn(s, sep) ==
    IF \A i \in 1..Len(s) : s[i] # sep THEN <<s>>
    ELSE LET k == CHOOSE i \in 1..Len(s) :
                     /\ s[i] = sep
                     /\ \A j \in 1..(i - 1) : s[j] # sep
         IN  <<SubSeq(s, 1, k - 1)>> \o SplitOn(SubSeq(s, k + 1, Len(s)), sep)

\* file_pattern = re.compile(r'^.+\[(.+)\]:$'); the positions of '[' at which
\* the whole field matches
FileBrackets(f) ==
    { i \in 2..(Len(f) - 3) : f[i] = "[" /\ f[Len(f) - 1] = "]" /\ f[Len(f)] = ":" }

\* file_pattern.match(data[0]) is not None
file_pattern_matches(f) == FileBrackets(f) # {}

AtomOk(a, ch) == a.c = "." \/ a.c = ch

\* The backtracking matcher: does pattern p from atom i match s from position j
\* (the pattern has to be used up, the string does not)
RECURSIVE MatchHere(_, _, _, _)
MatchHere(p, i, s, j) ==
    IF i > Len(p) THEN TRUE
    ELSE IF p[i].star
         THEN \/ MatchHere(p, i + 1, s, j)
              \/ (j <= Len(s) /\ AtomOk(p[i], s[j]) /\ MatchHere(p, i, s, j + 1))
         ELSE j <= Len(s) /\ AtomOk(p[i], s[j]) /\ MatchHere(p, i + 1, s, j + 1)

\* symbol_pattern.match(symbol): anchored at the start of symbol
re_match(p, s) == MatchHere(p, 1, s, 1)

\* str.splitlines() of a text whose only line break is "\n"
RECURSIVE splitlines(_)
splitlines(t) ==
    IF t = <<>> THEN <<>>
    ELSE IF \A i \in 1..Len(t) : t[i] # "\n" THEN <<t>>
    ELSE LET k == CHOOSE i \in 1..Len(t) :
                     /\ t[i] = "\n"
                     /\ \A j \in 1..(i - 1) : t[j] # "\n"
         IN  <<SubSeq(t, 1, k - 1)>> \o splitlines(SubSeq(t, k + 1, Len(t)))

Header == <<"#", " ", "S", "t", "r", "i", "p", "p", "e", "d", " ",
            "b", "y", " ", "C", "e", "r", "b", "e", "r", "o">>

module == with_suffix(args.source)

\* ------------------------------------------------------------------- Init
Init ==
    /\ pc = "get_nm"
    /\ args \in [source : Sources, dest : Dests, pattern : PatternArgs, nm : NmOverrides]
    /\ PATH \in Paths
    /\ \E dest_kind \in {"absent", "old"} :
           files0 = [p \in AllPaths |->
                        IF p = args.source THEN "archive"
                        ELSE IF p = args.dest THEN dest_kind
                        ELSE "absent"]
    /\ files = files0
    /\ symtab \in SeqsUpTo(Entries, MaxLines)
    /\ nm = ""
    /\ manifest = <<>>
    /\ symbol_pattern = <<>>
    /\ tmp = "none"
    /\ idx = 1
    /\ symbols_to_keep = {}
    /\ towrite = {}
    /\ module_text = <<>>
    /\ invoked = <<>>
    /\ echoed = <<>>
    /\ steps = <<>>
    /\ error = ""
    /\ failed_at = ""

\* ---------------------------------------------------------------- raising
\* An uncaught exception ends the run.
Raise(kind) ==
    /\ pc' = "failed"
    /\ error' = kind
    /\ failed_at' = pc

\* Mutant of ExitWith: the scratch directory is made with mkdtemp and never removed.
ExitWithLeak == tmp' = tmp

\* tempfile.TemporaryDirectory.__exit__
ExitWith == tmp' = "removed"

\* ---------------------------------------------------------------- actions

\* Mutant of GetNm: a missing nm falls back to the bare name instead of raising.
GetNmFallback ==
    /\ pc = "get_nm"
    /\ nm' = IF args.nm = "" THEN "nm" ELSE args.nm
    /\ pc' = "get_ld"
    /\ UNCHANGED <<args, PATH, files0, files, symtab, manifest, symbol_pattern,
                   tmp, idx, symbols_to_keep, towrite, module_text, invoked,
                   echoed, steps, error, failed_at>>

\* nm = get_nm(args)
GetNm ==
    /\ pc = "get_nm"
    /\ \/ /\ args.nm = ""
          /\ "nm" \notin PATH
          /\ Raise("RuntimeError")
          /\ UNCHANGED nm
       \/ /\ args.nm = ""
          /\ "nm" \in PATH
          /\ nm' = "nm"
          /\ pc' = "get_ld"
          /\ UNCHANGED <<error, failed_at>>
       \/ /\ args.nm # ""
          /\ nm' = args.nm
          /\ pc' = "get_ld"
          /\ UNCHANGED <<error, failed_at>>
    /\ UNCHANGED <<args, PATH, files0, files, symtab, manifest, symbol_pattern,
                   tmp, idx, symbols_to_keep, towrite, module_text, invoked,
                   echoed, steps>>

\* ld = get_exe('ld')
GetLd ==
    /\ pc = "get_ld"
    /\ \/ /\ "ld" \notin PATH
          /\ Raise("RuntimeError")
          /\ UNCHANGED steps
       \/ /\ "ld" \in PATH
          /\ pc' = "run_nm"
          /\ steps' = Append(steps, "tools-resolved")
          /\ UNCHANGED <<error, failed_at>>
    /\ UNCHANGED <<args, PATH, files0, files, symtab, nm, manifest,
                   symbol_pattern, tmp, idx, symbols_to_keep, towrite,
                   module_text, invoked, echoed>>

\* manifest = subprocess.run([nm, '-gjPUA', source.absolute()], check=True, ...)
RunNm ==
    /\ pc = "run_nm"
    /\ invoked' = Append(invoked, "nm")
    /\ \/ /\ Raise("CalledProcessError")
          /\ UNCHANGED <<manifest, steps>>
       \/ /\ manifest' = [i \in 1..Len(symtab) |-> FormatLine(symtab[i])]
          /\ steps' = Append(steps, "symbols-listed")
          /\ pc' = "compile"
          /\ UNCHANGED <<error, failed_at>>
    /\ UNCHANGED <<args, PATH, files0, files, symtab, nm, symbol_pattern, tmp,
                   idx, symbols_to_keep, towrite, module_text, echoed>>

\* Mutant of CompilePattern: --pattern defaults to the empty expression.
CompilePatternDefaultEmpty ==
    /\ pc = "compile"
    /\ symbol_pattern' = IF args.pattern = <<>> THEN << <<>> >> ELSE args.pattern
    /\ pc' = "mkdtemp"
    /\ UNCHANGED <<args, PATH, files0, files, symtab, nm, manifest, tmp, idx,
                   symbols_to_keep, towrite, module_text, invoked, echoed,
                   steps, error, failed_at>>

\* symbol_pattern = re.compile(args.pattern): None is not a pattern
CompilePattern ==
    /\ pc = "compile"
    /\ \/ /\ args.pattern = <<>>
          /\ Raise("TypeError")
          /\ UNCHANGED symbol_pattern
       \/ /\ args.pattern # <<>>
          /\ symbol_pattern' = args.pattern
          /\ pc' = "mkdtemp"
          /\ UNCHANGED <<error, failed_at>>
    /\ UNCHANGED <<args, PATH, files0, files, symtab, nm, manifest, tmp, idx,
                   symbols_to_keep, towrite, module_text, invoked, echoed, steps>>

\* with tempfile.TemporaryDirectory(prefix='cerbero') as tmp:
\*     symbols_to_keep: set[str] = set()
EnterWith ==
    /\ pc = "mkdtemp"
    /\ tmp' = "exists"
    /\ symbols_to_keep' = {}
    /\ idx' = 1
    /\ pc' = "filter"
    /\ UNCHANGED <<args, PATH, files0, files, symtab, nm, manifest,
                   symbol_pattern, towrite, module_text, invoked, echoed,
                   steps, error, failed_at>>

\* Mutant of Keep: symbol_pattern.search(symbol), a match anywhere in the name.
KeepUnanchored(keep, pattern, symbol) ==
    IF \E j \in 1..(Len(symbol) + 1) : MatchHere(pattern, 1, symbol, j)
    THEN keep \cup {symbol}
    ELSE keep

\* if symbol_pattern.match(symbol): symbols_to_keep.add(symbol)
Keep(keep, pattern, symbol) ==
    IF re_match(pattern, symbol) THEN keep \cup {symbol} ELSE keep

\* one iteration of: for line in manifest.stdout.splitlines():
FilterLine ==
    /\ pc = "filter"
    /\ idx <= Len(manifest)
    /\ LET data == SplitOn(manifest[idx], " ")
       IN  \/ /\ ~file_pattern_matches(data[1])
              /\ Raise("TypeError")
              /\ ExitWith
              /\ UNCHANGED <<idx, symbols_to_keep>>
           \/ /\ file_pattern_matches(data[1])
              /\ IF Len(data) < 2
                 THEN /\ Raise("IndexError")
                      /\ ExitWith
                      /\ UNCHANGED <<idx, symbols_to_keep>>
                 ELSE /\ symbols_to_keep' = Keep(symbols_to_keep, symbol_pattern[1], data[2])
                      /\ idx' = idx + 1
                      /\ UNCHANGED <<pc, error, failed_at, tmp>>
    /\ UNCHANGED <<args, PATH, files0, files, symtab, nm, manifest,
                   symbol_pattern, towrite, module_text, invoked, echoed, steps>>

\* the for loop over the listing runs out of lines
FilterDone ==
    /\ pc = "filter"
    /\ idx > Len(manifest)
    /\ steps' = Append(steps, "preserve-set-built")
    /\ pc' = "open_module"
    /\ UNCHANGED <<args, PATH, files0, files, symtab, nm, manifest,
                   symbol_pattern, tmp, idx, symbols_to_keep, towrite,
                   module_text, invoked, echoed, error, failed_at>>

\* module = source.with_suffix('.symbols'); module.open('w', encoding='utf-8')
OpenModule ==
    /\ pc = "open_module"
    /\ \/ /\ Raise("OSError")
          /\ ExitWith
          /\ UNCHANGED <<files, module_text, towrite>>
       \/ /\ files' = [files EXCEPT ![module] = "text"]
          /\ module_text' = <<>>
          /\ towrite' = symbols_to_keep
          /\ pc' = "write_header"
          /\ UNCHANGED <<error, failed_at, tmp>>
    /\ UNCHANGED <<args, PATH, files0, symtab, nm, manifest, symbol_pattern,
                   idx, symbols_to_keep, invoked, echoed, steps>>

\* f.write('# Stripped by Cerbero\n')
WriteHeader ==
    /\ pc = "write_header"
    /\ \/ /\ Raise("OSError")
          /\ ExitWith
          /\ UNCHANGED module_text
       \/ /\ module_text' = module_text \o Header \o <<"\n">>
          /\ pc' = "write_symbols"
          /\ UNCHANGED <<error, failed_at, tmp>>
    /\ UNCHANGED <<args, PATH, files0, files, symtab, nm, manifest,
                   symbol_pattern, idx, symbols_to_keep, towrite, invoked,
                   echoed, steps>>

\* Mutant of WriteLine: the line break is forgotten.
WriteLineNoNewline(text, symbol) == text \o symbol

\* f.write(f'{symbol}\n')
WriteLine(text, symbol) == text \o symbol \o <<"\n">>

\* one iteration of: for symbol in symbols_to_keep: (a set iterates in any order)
WriteSymbol ==
    /\ pc = "write_symbols"
    /\ \E symbol \in towrite :
          \/ /\ Raise("OSError")
             /\ ExitWith
             /\ UNCHANGED <<module_text, towrite>>
          \/ /\ module_text' = WriteLine(module_text, symbol)
             /\ towrite' = towrite \ {symbol}
             /\ UNCHANGED <<pc, error, failed_at, tmp>>
    /\ UNCHANGED <<args, PATH, files0, files, symtab, nm, manifest,
                   symbol_pattern, idx, symbols_to_keep, invoked, echoed, steps>>

\* leaving "with module.open(...) as f:" closes the file; the symbols are printed
CloseModule ==
    /\ pc = "write_symbols"
    /\ towrite = {}
    /\ steps' = Append(steps, "preserve-list-written")
    /\ pc' = "unpack"
    /\ UNCHANGED <<args, PATH, files0, files, symtab, nm, manifest,
                   symbol_pattern, tmp, idx, symbols_to_keep, towrite,
                   module_text, invoked, echoed, error, failed_at>>

\* subprocess.run([get_exe('ar'), 'xv', source.absolute()], cwd=tmp, check=True)
Unpack ==
    /\ pc = "unpack"
    /\ \/ /\ "ar" \notin PATH
          /\ Raise("RuntimeError")
          /\ ExitWith
          /\ UNCHANGED <<invoked, steps>>
       \/ /\ "ar" \in PATH
          /\ invoked' = Append(invoked, "ar")
          /\ Raise("CalledProcessError")
          /\ ExitWith
          /\ UNCHANGED steps
       \/ /\ "ar" \in PATH
          /\ files[args.source] = "archive"
          /\ invoked' = Append(invoked, "ar")
          /\ steps' = Append(steps, "unpacked")
          /\ pc' = "relink"
          /\ UNCHANGED <<error, failed_at, tmp>>
    /\ UNCHANGED <<args, PATH, files0, files, symtab, nm, manifest,
                   symbol_pattern, idx, symbols_to_keep, towrite, module_text,
                   echoed>>

\* Mutant of EchoAndRaise: the exception is re-raised without printing e.stderr.
RaiseWithoutEcho ==
    /\ echoed' = echoed
    /\ Raise("CalledProcessError")

\* except CalledProcessError as e: print(e.stderr, file=sys.stderr); raise e
EchoAndRaise ==
    /\ echoed' = Append(echoed, ToolStderr)
    /\ Raise("CalledProcessError")

\* Mutant of Relink: the handler prints e.stderr and forgets to raise.
RelinkSwallow ==
    /\ pc = "relink"
    /\ invoked' = Append(invoked, "ld")
    /\ \/ /\ echoed' = Append(echoed, ToolStderr)
          /\ pc' = "repack"
          /\ UNCHANGED steps
       \/ /\ steps' = Append(steps, "relinked")
          /\ pc' = "repack"
          /\ UNCHANGED echoed
    /\ UNCHANGED <<args, PATH, files0, files, symtab, nm, manifest,
                   symbol_pattern, tmp, idx, symbols_to_keep, towrite,
                   module_text, error, failed_at>>

\* subprocess.run(f'{get_exe("ld")} -r -exported_symbols_list {module} -o ... *.o',
\*                cwd=tmp, shell=True, check=True)
Relink ==
    /\ pc = "relink"
    /\ IF "ld" \notin PATH
       THEN /\ Raise("RuntimeError")
            /\ ExitWith
            /\ UNCHANGED <<invoked, echoed, steps>>
       ELSE /\ invoked' = Append(invoked, "ld")
            /\ \/ /\ EchoAndRaise
                  /\ ExitWith
                  /\ UNCHANGED steps
               \/ /\ steps' = Append(steps, "relinked")
                  /\ pc' = "repack"
                  /\ UNCHANGED <<echoed, error, failed_at, tmp>>
    /\ UNCHANGED <<args, PATH, files0, files, symtab, nm, manifest,
                   symbol_pattern, idx, symbols_to_keep, towrite, module_text>>

\* subprocess.run([get_exe('libtool'), '-static', '-o', dest.absolute(),
\*                 prelinked_obj.absolute()], check=True)
\* and the end of the with block and of the script
Repack ==
    /\ pc = "repack"
    /\ \/ /\ "libtool" \notin PATH
          /\ Raise("RuntimeError")
          /\ ExitWith
          /\ UNCHANGED <<invoked, echoed, steps, files, module_text>>
       \/ /\ "libtool" \in PATH
          /\ invoked' = Append(invoked, "libtool")
          /\ EchoAndRaise
          /\ ExitWith
          /\ UNCHANGED <<steps, files, module_text>>
       \/ /\ "libtool" \in PATH
          /\ invoked' = Append(invoked, "libtool")
          /\ files' = [files EXCEPT ![args.dest] = "new"]
          /\ module_text' = IF args.dest = module THEN <<>> ELSE module_text
          /\ steps' = Append(steps, "repacked")
          /\ ExitWith
          /\ pc' = "done"
          /\ UNCHANGED <<echoed, error, failed_at>>
    /\ UNCHANGED <<args, PATH, files0, symtab, nm, manifest, symbol_pattern,
                   idx, symbols_to_keep, towrite>>

Next ==
    \/ GetNm
    \/ GetLd
    \/ RunNm
    \/ CompilePattern
    \/ EnterWith
    \/ FilterLine
    \/ FilterDone
    \/ OpenModule
    \/ WriteHeader
    \/ WriteSymbol
    \/ CloseModule
    \/ Unpack
    \/ Relink
    \/ Repack

Spec == Init /\ [][Next]_vars

\* ------------------------------------------------------------ properties

Range(q) == {q[i] : i \in 1..Len(q)}

Terminal == pc \in {"done", "failed"}

\* What "P matches anchored at the start of the name" means, stated without
\* the matcher: some prefix of s splits into one piece per atom of p, a plain
\* atom taking exactly one character it accepts and a starred atom any number.
FullMatch(p, t) ==
    \E cut \in [0..Len(p) -> 0..Len(t)] :
        /\ cut[0] = 0
        /\ cut[Len(p)] = Len(t)
        /\ \A i \in 1..Len(p) :
              /\ cut[i - 1] <= cut[i]
              /\ p[i].star \/ cut[i] = cut[i - 1] + 1
              /\ \A k \in (cut[i - 1] + 1)..cut[i] : AtomOk(p[i], t[k])

AnchoredAtStart(p, s) == \E k \in 0..Len(s) : FullMatch(p, SubSeq(s, 1, k))

\* The symbol names on the first n lines of the listing.
ListedNames(n) == {symtab[i].sym : i \in 1..n}

\* C1: while and after the filter loop runs over well-formed lines, the
\* preserve-set is exactly the set of names listed so far that the pattern
\* matches anchored at the start of the name; once the loop has finished that
\* is the whole listing, and a name listed by several members is one element.
C1_PreserveSetExact ==
    /\ tmp # "none" =>
          symbols_to_keep =
              {s \in ListedNames(idx - 1) : AnchoredAtStart(args.pattern[1], s)}
    /\ "preserve-set-built" \in Range(steps) =>
          /\ idx - 1 = Len(symtab)
          /\ \A s \in ListedNames(Len(symtab)) :
                s \in symbols_to_keep <=> AnchoredAtStart(args.pattern[1], s)

\* C1 witness: the loop finished over two members listing the same name and a
\* pattern that matches it; the name is kept once.
C1_Witness ==
    /\ pc = "open_module"
    /\ Len(symtab) = 2
    /\ symtab[1].sym = symtab[2].sym
    /\ symtab[1].obj # symtab[2].obj
    /\ Cardinality(symbols_to_keep) = 1

\* C2: in every terminal state the scratch directory does not exist: it was
\* never created or it has been removed.
C2_ScratchRemoved == Terminal => tmp # "exists"

\* C2 witness: a run that failed inside the with block (ar exited non-zero)
\* and ended with the scratch directory removed.
C2_Witness ==
    /\ pc = "failed"
    /\ failed_at = "unpack"
    /\ error = "CalledProcessError"
    /\ tmp = "removed"

\* C3 (as claimed): a run that ends failed leaves the destination as it was
\* before the run, and a run that ends done leaves the new archive there.
C3_DestOnlyByRepack ==
    /\ pc = "failed" => files[args.dest] = files0[args.dest]
    /\ pc = "done" => files[args.dest] = "new"

\* C4: without --nm and without nm on the search path the run never leaves
\* tool resolution: it fails in get_nm with no tool invoked, no scratch
\* directory and no file written.
C4_NmMissingFailsFirst ==
    (args.nm = "" /\ "nm" \notin PATH) =>
        /\ pc \in {"get_nm", "failed"}
        /\ pc = "failed" => (error = "RuntimeError" /\ failed_at = "get_nm")
        /\ invoked = <<>>
        /\ tmp = "none"
        /\ files = files0
        /\ module_text = <<>>

\* C4 witness: the run failed for want of nm.
C4_Witness ==
    /\ pc = "failed"
    /\ args.nm = ""
    /\ "nm" \notin PATH
    /\ failed_at = "get_nm"

Stages == <<"tools-resolved", "symbols-listed", "preserve-set-built",
            "preserve-list-written", "unpacked", "relinked", "repacked">>

\* The number of stages completed when the script is at position p.
StagesBefore(p) ==
    CASE p \in {"get_nm", "get_ld"} -> 0
      [] p = "run_nm" -> 1
      [] p \in {"compile", "mkdtemp", "filter"} -> 2
      [] p \in {"open_module", "write_header", "write_symbols"} -> 3
      [] p = "unpack" -> 4
      [] p = "relink" -> 5
      [] p = "repack" -> 6
      [] p = "done" -> 7

IsPrefix(q, r) == Len(q) <= Len(r) /\ \A i \in 1..Len(q) : q[i] = r[i]

\* C5: the stages complete in the order of the state machine, each once; the
\* tools run in the order nm, ar, ld, libtool, each at most once; the linker
\* runs only when the sidecar has been written completely; a failure ends the
\* run with exactly the stages completed before the failing position; done is
\* reached only with every stage completed and the destination written.
C5_LinearPipeline ==
    /\ IsPrefix(steps, Stages)
    /\ IsPrefix(invoked, <<"nm", "ar", "ld", "libtool">>)
    /\ pc # "failed" => (Len(steps) = StagesBefore(pc) /\ error = "")
    /\ pc = "failed" => (Len(steps) = StagesBefore(failed_at) /\ error # "")
    /\ "ld" \in Range(invoked) =>
          /\ IsPrefix(SubSeq(Stages, 1, 5), steps)
          /\ towrite = {}
    /\ pc = "done" =>
          /\ steps = Stages
          /\ invoked = <<"nm", "ar", "ld", "libtool">>
          /\ files[args.dest] = "new"

\* C5 witness: the linker failed; the run ended there with five stages done.
C5_Witness ==
    /\ pc = "failed"
    /\ failed_at = "relink"
    /\ steps = SubSeq(Stages, 1, 5)
    /\ invoked = <<"nm", "ar", "ld">>

\* The sidecar has been written and nothing has replaced it since.
SidecarWritten ==
    /\ "preserve-list-written" \in Range(steps)
    /\ ~(pc = "done" /\ args.dest = module)

\* C6: once the writer has finished, the sidecar is the header line followed
\* by one line per element of the preserve-set and nothing else: the lines
\* after the header, read back as a set, are the preserve-set; with an empty
\* preserve-set the file is the header line alone.
C6_SidecarRoundTrip ==
    SidecarWritten =>
        LET lines == splitlines(module_text)
        IN  /\ files[module] = "text"
            /\ module_text[Len(module_text)] = "\n"
            /\ Len(lines) = 1 + Cardinality(symbols_to_keep)
            /\ lines[1] = Header
            /\ {lines[i] : i \in 2..Len(lines)} = symbols_to_keep
            /\ symbols_to_keep = {} => module_text = Header \o <<"\n">>

\* C6 witness: the writer finished a sidecar for two symbols.
C6_Witness ==
    /\ pc = "unpack"
    /\ Cardinality(symbols_to_keep) = 2

\* C7 (as claimed): whichever tool cannot be located, the configuration error
\* is raised with no tool invoked, no scratch directory created and no file
\* written.
C7_AllToolsFailFast ==
    (pc = "failed" /\ error = "RuntimeError") =>
        /\ invoked = <<>>
        /\ tmp = "none"
        /\ files = files0

\* C8 (as claimed): the file at the source path keeps the content it had at
\* the start, in every state.
C8_SourceUntouched == files[args.source] = files0[args.source]

\* C9: when ld or libtool exits non-zero the script has printed the tool's
\* standard error by the time the run has failed; when nm or ar exits
\* non-zero the script has printed nothing to standard error.
C9_StderrEcho ==
    (pc = "failed" /\ error = "CalledProcessError") =>
        /\ failed_at \in {"relink", "repack"} => echoed = <<ToolStderr>>
        /\ failed_at \in {"run_nm", "unpack"} => echoed = <<>>

\* C9 witness: libtool exited non-zero and its standard error was echoed.
C9_Witness ==
    /\ pc = "failed"
    /\ failed_at = "repack"
    /\ error = "CalledProcessError"
    /\ echoed = <<ToolStderr>>

\* C10 (as claimed): without --pattern the error is raised in the filter loop,
\* after the scratch directory was created and with a line to match against;
\* a run with an empty listing does not fail for want of the pattern.
C10_FailsOnFirstMatch ==
    (args.pattern = <<>> /\ pc = "failed" /\ error = "TypeError") =>
        /\ failed_at = "filter"
        /\ tmp = "removed"
        /\ manifest # <<>>

\* C10 (amended): without --pattern the run never gets past compiling the
\* pattern: once the listing has been obtained it fails there with a
\* TypeError, whatever the listing holds, with nm the only tool run, no
\* scratch directory created and no file written.
C10_FailsAtCompile ==
    args.pattern = <<>> =>
        /\ pc \in {"get_nm", "get_ld", "run_nm", "compile", "failed"}
        /\ tmp = "none"
        /\ files = files0
        /\ (pc = "failed" /\ "symbols-listed" \in Range(steps)) =>
              /\ error = "TypeError"
              /\ failed_at = "compile"
              /\ invoked = <<"nm">>

\* C10 witness: no --pattern, an empty listing, and the run failed at compile.
C10_Witness ==
    /\ pc = "failed"
    /\ args.pattern = <<>>
    /\ error = "TypeError"
    /\ failed_at = "compile"
    /\ "symbols-listed" \in Range(steps)
    /\ manifest = <<>>

====
